---- MODULE Spec2Model ----
(***************************************************************************)
(* The sign-up router machine of                                           *)
(* packages/elements/src/internals/machines/sign-up/router.machine.ts,     *)
(* an XState v5 state chart, as a TLA+ state machine.                      *)
(*                                                                         *)
(* One TLA+ action is one macrostep of the actor: an external event is     *)
(* taken from the mailbox, its transition is selected (deepest active      *)
(* state node first, first enabled guard of a transition list wins), the   *)
(* exit actions, transition actions and entry actions run in that order,   *)
(* and then the eventless (`always`) transitions and the events raised     *)
(* without a delay are processed until the machine is at rest.             *)
(***************************************************************************)
EXTENDS Integers, Sequences, FiniteSets, TLC

VARIABLES
  status,    \* actor status: "active", or "error" once a guard or an action threw
  state,     \* the active leaf state node, as the path from the root's child
  context,   \* the machine context (router.machine.ts:365, 431-448)
  signUp,    \* context.clerk.client.signUp: the identity client's cached resource
  router,    \* context.router: what pathname() / match() / searchParams() answer
  settings,  \* context.clerk.__unstable__environment (userSettings)
  initEnv,   \* what only the Init guards read of clerk and router, as INIT supplied it
  invoked,   \* id of the invoked actor that is running, or "none"
  orphans,   \* identity-client calls still in flight whose actor has been stopped
  resets,    \* delayed RESET events scheduled by delayedReset and not yet delivered
  child,     \* how many third-party machines have been spawned as children
  linkTimer, \* time since EmailLink.Attempting was entered, in ticks; 0 outside it
  out        \* what the last macrostep did outside the machine: navigations, form
             \* commands, session activations, events to the child, calls started

vars == <<status, state, context, signUp, router, settings, initEnv, invoked,
          orphans, resets, child, linkTimer, out>>

----------------------------------------------------------------------------
(* Bounds of the model *)

\* RESENDABLE_COUNTDOWN_DEFAULT of ~/internals/constants, scaled down
ResendableCountdown == 1
\* stopped calls that are followed until they complete (more are not tracked)
MaxOrphans == 1
\* pending delayed RESET events that are followed (more are not tracked)
MaxResets == 1
\* form stores that can be attached
MaxFormRef == 1
\* third-party machines that are counted (more are not told apart)
MaxChildren == 2

----------------------------------------------------------------------------
(* Resources *)

\* context.resource before any resource has been stored (context: {}, line 365)
NoResource == [status |-> "undefined", session |-> FALSE, missing |-> FALSE, unverified |-> {}]

\* The sign-up resource, reduced to what the guards read of it: status,
\* createdSessionId (set or not), missingFields (non-empty or not), unverifiedFields.
Res(st, se, mi, un) == [status |-> st, session |-> se, missing |-> mi, unverified |-> un]

Resources ==
  { Res("null", FALSE, FALSE, {}),                       \* the client's empty sign-up
    Res("complete", TRUE, FALSE, {}),
    Res("complete", FALSE, FALSE, {}),
    Res("missing_requirements", FALSE, TRUE, {}),
    Res("missing_requirements", FALSE, TRUE, {"email_address"}),
    Res("missing_requirements", FALSE, FALSE, {"email_address", "phone_number"}) }

MaybeResource == Resources \cup {NoResource}

----------------------------------------------------------------------------
(* Events *)

\* resource: the resource a NEXT or EMAIL_LINK.* event carries; output: the output of
\* an actor's done event; lastActive: whether clerk.client.lastActiveSessionId is set
\* when the event is processed
Ev(t) == [type |-> t, resource |-> NoResource, output |-> NoResource, lastActive |-> FALSE]
EvR(t, r) == [Ev(t) EXCEPT !.resource = r]
EvDone(r) == [Ev("xstate.done.actor") EXCEPT !.output = r]

\* The machine as one record, so that actions compose as functions on it.
\* queue holds the events raised without delay during the macrostep.
M == [status |-> status, state |-> state, ctx |-> context, signUp |-> signUp,
      router |-> router, settings |-> settings, initEnv |-> initEnv,
      invoked |-> invoked, orphans |-> orphans, resets |-> resets,
      child |-> child, timer |-> linkTimer, out |-> out, queue |-> <<>>]

NoOut == [navs |-> <<>>, form |-> <<>>, active |-> <<>>, sent |-> <<>>, calls |-> <<>>]

NoInitEnv == [user |-> FALSE, single |-> FALSE, restricted |-> FALSE,
              transfer |-> FALSE, redirect |-> FALSE]

Top(m) == m.state[1]
Throw(m) == [m EXCEPT !.status = "error"]

----------------------------------------------------------------------------
(* Guards (setup({ guards }), lines 285-356). Each reads the machine m and  *)
(* the event ev the transition is evaluated for.                            *)

Completed(r) == r.status = "complete" /\ r.session

isComplete(m, ev) ==
  \/ Completed(m.ctx.resource)
  \/ Completed(ev.resource)
  \/ Completed(m.signUp)

needsStatus(s, m, ev) == ev.resource.status = s \/ m.signUp.status = s

areFieldsMissing(m) == m.signUp.missing
areFieldsUnverified(m) == m.signUp.unverified # {}
hasCreatedSession(m) == m.router.createdSession
hasClerkStatus(m) == m.router.status # "none"
hasClerkStatusIs(m, s) == m.router.status = s
hasClerkTransfer(m) == m.initEnv.transfer
hasTicket(m) == m.ctx.ticket # "none"
isExampleMode(m) == m.ctx.exampleMode
isResendable(m) == m.ctx.resendable \/ m.ctx.resendableAfter = 0
isStatusMissingRequirements(m, ev) == needsStatus("missing_requirements", m, ev)
isLoggedIn(m, ev) == isComplete(m, ev) \/ m.initEnv.user
isSingleSessionMode(m) == m.initEnv.single
isLoggedInAndSingleSession(m, ev) ==
  isLoggedIn(m, ev) /\ isSingleSessionMode(m) /\ ~isExampleMode(m)
isRestricted(m) == m.initEnv.restricted
isRestrictedWithoutTicket(m) == isRestricted(m) /\ ~hasTicket(m)
isMissingRequiredFields(m, ev) == isStatusMissingRequirements(m, ev) /\ areFieldsMissing(m)
isMissingRequiredUnverifiedFields(m, ev) ==
  isStatusMissingRequirements(m, ev) /\ areFieldsUnverified(m)
isStrategyEnabled(m, attribute, strategy) ==
  attribute = "email_address" /\ strategy \in m.settings.emailVerifications

isCurrentPath(m, path) == m.ctx.inited /\ m.router.path = path

statusNeedsContinue(m, ev) == isMissingRequiredFields(m, ev)
statusNeedsVerification(m, ev) ==
  \/ isMissingRequiredUnverifiedFields(m, ev)
  \/ (areFieldsMissing(m) /\ hasClerkStatus(m))
needsContinue(m, ev) == statusNeedsContinue(m, ev) /\ isCurrentPath(m, "/continue")
needsVerification(m, ev) == statusNeedsVerification(m, ev) /\ isCurrentPath(m, "/verify")
needsCallback(m) == isCurrentPath(m, "/sso-callback")
hasAuthenticatedViaClerkJS(m, lastActive) == m.signUp.status = "null" /\ lastActive

\* isFieldUnverified reads resource.unverifiedFields of the NEXT event's resource
\* when the event is NEXT and carries one, else of context.resource (lines 319-327).
FieldResource(m, ev) ==
  IF ev.type = "NEXT" /\ ev.resource # NoResource THEN ev.resource ELSE m.ctx.resource
\* ... and throws a TypeError when that resource is undefined
isFieldUnverifiedThrows(m, ev) == FieldResource(m, ev) = NoResource
isFieldUnverified(m, ev, field) == field \in FieldResource(m, ev).unverified

\* shouldVerify(field, strategy?) (lines 72-93)
shouldVerify(m, ev, field, strategy) ==
  /\ isFieldUnverified(m, ev, field)
  /\ (strategy # "none" => isStrategyEnabled(m, field, strategy))
shouldVerifyPhoneCode(m, ev) == shouldVerify(m, ev, "phone_number", "none")
shouldVerifyEmailLink(m, ev) == shouldVerify(m, ev, "email_address", "email_link")
shouldVerifyEmailCode(m, ev) == shouldVerify(m, ev, "email_address", "email_code")

----------------------------------------------------------------------------
(* Actions (setup({ actions }), lines 105-284) *)

Sat(n, max) == IF n < max THEN n + 1 ELSE n

FormSend(m, cmd) == [m EXCEPT !.out.form = Append(@, cmd)]

\* sendTo(({ context }) => context.formRef, ...): with no form attached the target
\* resolves to the machine itself, where no transition handles the command
clearFormErrors(m) == IF m.ctx.formRef = 0 THEN m ELSE FormSend(m, "ERRORS.CLEAR")
setFormErrors(m) == IF m.ctx.formRef = 0 THEN m ELSE FormSend(m, "ERRORS.SET")

\* ERRORS.SET with the error verify-email-link-timeout (834-837)
TimeoutError == "ERRORS.SET verify-email-link-timeout"
setTimeoutError(m) == IF m.ctx.formRef = 0 THEN m ELSE FormSend(m, TimeoutError)

\* navigateInternal without the check of context.exampleMode
navigateInternal_InExample(m, path, force) ==
  IF ~m.ctx.inited THEN m
  ELSE IF ~force /\ m.router.virtual THEN m
  ELSE IF path = m.router.path THEN m
  ELSE [m EXCEPT !.router.path = path,
                 !.out.navs = Append(@, [kind |-> "shallowPush", to |-> path])]

navigateInternal(m, path, force) ==
  IF ~m.ctx.inited THEN m
  ELSE IF ~force /\ m.router.virtual THEN m
  ELSE IF m.ctx.exampleMode THEN m
  ELSE IF path = m.router.path THEN m
  ELSE [m EXCEPT !.router.path = path,
                 !.out.navs = Append(@, [kind |-> "shallowPush", to |-> path])]

navigateExternal(m, path) ==
  IF ~m.ctx.inited THEN m
  ELSE [m EXCEPT !.out.navs = Append(@, [kind |-> "push", to |-> path])]

raiseNext(m) == [m EXCEPT !.queue = Append(@, Ev("NEXT"))]

\* resendableTick that counts down without looking at the value
resendableTick_Unguarded(m) ==
  [m EXCEPT !.ctx.resendable = (m.ctx.resendableAfter = 0),
            !.ctx.resendableAfter = @ - 1]

resendableTick(m) ==
  [m EXCEPT !.ctx.resendable = (m.ctx.resendableAfter = 0),
            !.ctx.resendableAfter = IF @ > 0 THEN @ - 1 ELSE @]

resendableReset(m) ==
  [m EXCEPT !.ctx.resendable = FALSE, !.ctx.resendableAfter = ResendableCountdown]

\* session: params.sessionId || (useLastActiveSession && lastActiveSessionId)
\*          || (event.resource || clerk.client.signUp).createdSessionId
setActive(m, ev, sessionId, lastActive) ==
  IF m.ctx.exampleMode THEN m
  ELSE LET r == IF ev.resource # NoResource THEN ev.resource ELSE m.signUp
           session == IF sessionId THEN "marker"
                      ELSE IF lastActive THEN "lastActive"
                      ELSE IF r.session THEN "created" ELSE "none"
       IN [m EXCEPT !.out.active = Append(@, session)]

\* delayedReset that raises nothing
delayedReset_Never(m) == m

delayedReset(m) == [m EXCEPT !.resets = Sat(@, MaxResets)]

goToNextStep(m, output) == [m EXCEPT !.queue = Append(@, EvR("NEXT", output))]

\* reads context.clerk.client.signUp; the sendTo(...) it builds is never executed
markFormAsProgressive(m) == IF ~m.ctx.inited THEN Throw(m) ELSE m

unmarkFormAsProgressive(m) ==
  IF m.ctx.formRef = 0 THEN Throw(m) ELSE FormSend(m, "UNMARK_AS_PROGRESSIVE")

loadingBegin(m, step) == [m EXCEPT !.ctx.loading = [isLoading |-> TRUE, step |-> step]]
loadingEnd(m) == [m EXCEPT !.ctx.loading = [isLoading |-> FALSE, step |-> "undefined"]]

setFormDefaultValues(m) ==
  IF ~m.ctx.inited \/ m.ctx.formRef = 0 THEN Throw(m)
  ELSE FormSend(m, "PREFILL_DEFAULT_VALUES")

\* DISABLEABLE_FIELDS (line 60)
DISABLEABLE_FIELDS == {"emailAddress", "phoneNumber"}

\* setFormDisabledTicketFields (222-234): returns without a ticket; else reads the
\* form store's fields (a TypeError with no form attached) and, for each
\* disableable field among them, builds a sendTo(...) that is never executed: no
\* FIELD.DISABLE is sent, whatever fields the form holds
setFormDisabledTicketFields(m) ==
  IF ~hasTicket(m) THEN m
  ELSE IF m.ctx.formRef = 0 THEN Throw(m)
  ELSE m

setResource(m, output) == [m EXCEPT !.ctx.resource = output]

----------------------------------------------------------------------------
(* State nodes: invoke, exit and entry (createMachine, lines 362-1131) *)

V == "Verification"
CodeFlows == {"EmailCode", "PhoneCode"}
Flows == CodeFlows \cup {"EmailLink"}

\* the leaf a transition to a state node comes to rest in (its initial descendants)
StartNode == <<"Start", "Init">>
ContinueNode == <<"Continue", "Pending">>
VerificationNode == <<V, "Init">>
PreparingNode(f) == <<V, f, "Preparing">>
PendingNode(f) == IF f = "EmailLink" THEN <<V, f, "Pending">>
                  ELSE <<V, f, "Pending", "NotResendable">>
AttemptingNode(f) == IF f = "EmailLink" THEN <<V, f, "Attempting", "NotResendable">>
                     ELSE <<V, f, "Attempting">>

\* invoke.id of a state node, "none" when it invokes nothing
InvokeId(p) ==
  CASE p = <<"Start", "Attempting">> -> "startAttempt"
    [] p = <<"Start", "AttemptingWeb3">> -> "startAttemptWeb3"
    [] p = <<"Continue", "Attempting">> -> "continueAttempt"
    [] p = <<V, "EmailLink", "Preparing">> -> "prepareEmailLinkVerification"
    [] p = <<V, "EmailLink", "Attempting">> -> "attemptEmailLinkVerification"
    [] p = <<V, "EmailCode", "Preparing">> -> "prepareEmailAddressCodeVerification"
    [] p = <<V, "EmailCode", "Attempting">> -> "attemptEmailAddressCodeVerification"
    [] p = <<V, "PhoneCode", "Preparing">> -> "preparePhoneCodeVerification"
    [] p = <<V, "PhoneCode", "Attempting">> -> "attemptPhoneNumberVerification"
    [] OTHER -> "none"

\* the promise actors: identity-client calls that resolve or reject once
PromiseActors ==
  {"startAttempt", "startAttemptWeb3", "continueAttempt",
   "prepareEmailLinkVerification", "prepareEmailAddressCodeVerification",
   "attemptEmailAddressCodeVerification", "preparePhoneCodeVerification",
   "attemptPhoneNumberVerification"}

\* entry: loadingBegin with this step; "none" for a node without it
LoadingStep(p) ==
  CASE p \in {<<"Start", "Attempting">>, <<"Start", "AttemptingWeb3">>} -> "start"
    [] p = <<"Continue", "Attempting">> -> "continue"
    [] p \in {<<V, f, "Attempting">> : f \in CodeFlows} -> "verifications"
    [] OTHER -> "none"

\* an exit that leaves the node's invoked actor running
StopInvoked_Keeps(m, p) == m

\* stopChild of the node's invoked actor: the actor no longer delivers its
\* completion; the identity-client call it made is not cancelled
StopInvoked(m, p) ==
  IF InvokeId(p) = "none" \/ m.invoked # InvokeId(p) THEN m
  ELSE [m EXCEPT !.invoked = "none",
                 !.orphans = IF InvokeId(p) \in PromiseActors
                             THEN Sat(@, MaxOrphans) ELSE @]

ExitActions(m, p) ==
  CASE p = <<"Start">> -> clearFormErrors(m)
    [] p = <<"Continue">> -> unmarkFormAsProgressive(m)
    [] LoadingStep(p) # "none" -> loadingEnd(m)
    [] p \in {PreparingNode(f) : f \in Flows} -> resendableReset(m)
    [] OTHER -> m

\* the delay named emailLinkTimeout (5 minutes), in ticks of the model's clock
emailLinkTimeout == 2

\* after: { emailLinkTimeout } of EmailLink.Attempting: the delayed event is
\* scheduled when the state node is entered and cancelled when it is exited
ScheduleAfter(m, p) == IF p = <<V, "EmailLink", "Attempting">> THEN [m EXCEPT !.timer = 0] ELSE m
CancelAfter(m, p) == IF p = <<V, "EmailLink", "Attempting">> THEN [m EXCEPT !.timer = 0] ELSE m

\* exits the deepest active state node
ExitNode(m) ==
  LET p == m.state
  IN [CancelAfter(StopInvoked(ExitActions(m, p), p), p)
        EXCEPT !.state = SubSeq(p, 1, Len(p) - 1)]

\* exits the active state nodes deeper than `keep`, deepest first
RECURSIVE ExitTo(_, _)
ExitTo(m, keep) == IF Len(m.state) <= keep THEN m ELSE ExitTo(ExitNode(m), keep)

\* Init.entry that spawns the child on every entry
SpawnThirdParty_Always(m) == [m EXCEPT !.child = Sat(@, MaxChildren)]

\* Init.entry: spawnChild unless the third-party machine is already a child
SpawnThirdParty(m) == IF m.child > 0 THEN m ELSE [m EXCEPT !.child = Sat(@, MaxChildren)]

SendToThirdParty(m, type) ==
  IF m.child = 0 THEN Throw(m) ELSE [m EXCEPT !.out.sent = Append(@, type)]

EntryActions(m, p) ==
  CASE p = <<"Init">> -> SpawnThirdParty(m)
    [] p = <<"Start">> -> setFormDefaultValues(m)
    [] p = <<"Continue">> -> markFormAsProgressive(m)
    [] p = <<"Callback">> -> SendToThirdParty(m, "CALLBACK")
    [] LoadingStep(p) # "none" -> loadingBegin(m, LoadingStep(p))
    [] OTHER -> m

StartInvoked(m, p) ==
  IF InvokeId(p) = "none" THEN m
  ELSE [m EXCEPT !.invoked = InvokeId(p), !.out.calls = Append(@, InvokeId(p))]

EnterNode(m, p) ==
  [ScheduleAfter(StartInvoked(EntryActions(m, p), p), p) EXCEPT !.state = p]

\* enters the state nodes of `target` below the active one, outermost first
RECURSIVE EnterTo(_, _)
EnterTo(m, target) ==
  IF Len(m.state) >= Len(target) THEN m
  ELSE EnterTo(EnterNode(m, SubSeq(target, 1, Len(m.state) + 1)), target)

----------------------------------------------------------------------------
(* Transitions *)

Id(m) == m

\* one transition: exit down to depth `keep`, run the actions, enter the target
Trans(m, keep, Act(_), target) == EnterTo(Act(ExitTo(m, keep)), target)

\* Start's NEXT with the continuation branch tried before the verification branch
StartOnNext_ContinueFirst(m, ev) ==
  IF isComplete(m, ev) THEN delayedReset(setActive(m, ev, FALSE, FALSE))
  ELSE IF hasTicket(m) /\ statusNeedsContinue(m, ev)
    THEN Trans(m, 1, LAMBDA x : navigateInternal(x, "/", FALSE), StartNode)
  ELSE IF statusNeedsContinue(m, ev)
    THEN Trans(m, 0, LAMBDA x : navigateInternal(x, "/continue", FALSE), ContinueNode)
  ELSE IF statusNeedsVerification(m, ev)
    THEN Trans(m, 0, LAMBDA x : navigateInternal(x, "/verify", FALSE), VerificationNode)
  ELSE m

\* states.Start.on.NEXT (lines 517-537)
StartOnNext(m, ev) ==
  IF isComplete(m, ev) THEN delayedReset(setActive(m, ev, FALSE, FALSE))
  ELSE IF hasTicket(m) /\ statusNeedsContinue(m, ev)
    THEN Trans(m, 1, LAMBDA x : navigateInternal(x, "/", FALSE), StartNode)
  ELSE IF statusNeedsVerification(m, ev)
    THEN Trans(m, 0, LAMBDA x : navigateInternal(x, "/verify", FALSE), VerificationNode)
  ELSE IF statusNeedsContinue(m, ev)
    THEN Trans(m, 0, LAMBDA x : navigateInternal(x, "/continue", FALSE), ContinueNode)
  ELSE m

\* states.Continue.on.NEXT (lines 649-659)
ContinueOnNext(m, ev) ==
  IF isComplete(m, ev) THEN delayedReset(setActive(m, ev, FALSE, FALSE))
  ELSE IF statusNeedsVerification(m, ev)
    THEN Trans(m, 0, LAMBDA x : navigateInternal(x, "/verify", FALSE), VerificationNode)
  ELSE m

\* states.Verification.on.NEXT (lines 727-738)
\* Verification's NEXT with the continuation branch tried before the complete branch
VerificationOnNext_ContinueFirst(m, ev) ==
  IF statusNeedsContinue(m, ev)
    THEN Trans(m, 0, LAMBDA x : navigateInternal(x, "/continue", FALSE), ContinueNode)
  ELSE IF isComplete(m, ev) THEN delayedReset(setActive(m, ev, FALSE, FALSE))
  ELSE Trans(m, 1, Id, VerificationNode)

VerificationOnNext(m, ev) ==
  IF isComplete(m, ev) THEN delayedReset(setActive(m, ev, FALSE, FALSE))
  ELSE IF statusNeedsContinue(m, ev)
    THEN Trans(m, 0, LAMBDA x : navigateInternal(x, "/continue", FALSE), ContinueNode)
  ELSE Trans(m, 1, Id, VerificationNode)

\* states.Callback.on.NEXT (lines 1084-1108)
CallbackOnNext(m, ev) ==
  IF isComplete(m, ev) THEN delayedReset(setActive(m, ev, FALSE, FALSE))
  ELSE IF hasAuthenticatedViaClerkJS(m, ev.lastActive)
    THEN delayedReset(setActive(m, ev, FALSE, ev.lastActive))
  ELSE IF statusNeedsVerification(m, ev)
    THEN Trans(m, 0, LAMBDA x : navigateInternal(x, "/verify", FALSE), VerificationNode)
  ELSE IF statusNeedsContinue(m, ev)
    THEN Trans(m, 0, LAMBDA x : navigateInternal(x, "/continue", FALSE), ContinueNode)
  ELSE Trans(m, 0, LAMBDA x : navigateInternal(x, "/", FALSE), StartNode)

OnNext(m, ev) ==
  CASE m.state = PendingNode("EmailLink") -> Trans(m, 2, Id, PreparingNode("EmailLink"))
    [] Top(m) = "Start" -> StartOnNext(m, ev)
    [] Top(m) = "Continue" -> ContinueOnNext(m, ev)
    [] Top(m) = V /\ m.state # PendingNode("EmailLink") -> VerificationOnNext(m, ev)
    [] Top(m) = "Callback" -> CallbackOnNext(m, ev)
    [] Top(m) = "Restricted" -> Trans(m, 0, Id, StartNode)
    [] Top(m) = "Error" -> Trans(m, 0, clearFormErrors, StartNode)
    [] OTHER -> m

\* SUBMIT handled by Start as a whole rather than by Start.Pending: it restarts a
\* running attempt
OnSubmit_InAttempting(m) ==
  CASE Top(m) = "Start" /\ ~isExampleMode(m) ->
         Trans(m, 1, Id, <<"Start", "Attempting">>)
    [] m.state = ContinueNode -> Trans(m, 1, Id, <<"Continue", "Attempting">>)
    [] Top(m) = V /\ Len(m.state) = 4 /\ m.state[2] \in CodeFlows /\ m.state[3] = "Pending" ->
         Trans(m, 2, Id, AttemptingNode(m.state[2]))
    [] OTHER -> m

\* SUBMIT: Start.Pending (564), Continue.Pending (667), code flows' Pending (910, 1012)
OnSubmit(m) ==
  CASE m.state = <<"Start", "Pending">> /\ ~isExampleMode(m) ->
         Trans(m, 1, Id, <<"Start", "Attempting">>)
    [] m.state = ContinueNode -> Trans(m, 1, Id, <<"Continue", "Attempting">>)
    [] Top(m) = V /\ Len(m.state) = 4 /\ m.state[2] \in CodeFlows /\ m.state[3] = "Pending" ->
         Trans(m, 2, Id, AttemptingNode(m.state[2]))
    [] OTHER -> m

\* RETRY handled by Pending alone: the NotResendable sub-state does not shield it
OnRetry_Unshielded(m) ==
  CASE Top(m) = V /\ Len(m.state) >= 3 /\ m.state[2] = "EmailLink" ->
         IF m.state = AttemptingNode("EmailLink") THEN m
         ELSE Trans(m, 2, Id, PreparingNode("EmailLink"))
    [] Top(m) = V /\ Len(m.state) = 4 /\ m.state[2] \in CodeFlows /\ m.state[3] = "Pending" ->
         Trans(m, 2, Id, PreparingNode(m.state[2]))
    [] OTHER -> m

\* RETRY: EmailLink (765, 849), code flows' Pending (909, 923 and 1011, 1025)
OnRetry(m) ==
  CASE Top(m) = V /\ Len(m.state) >= 3 /\ m.state[2] = "EmailLink" ->
         IF m.state = AttemptingNode("EmailLink") THEN m   \* NotResendable: log only
         ELSE Trans(m, 2, Id, PreparingNode("EmailLink"))
    [] Top(m) = V /\ Len(m.state) = 4 /\ m.state[2] \in CodeFlows /\ m.state[3] = "Pending" ->
         IF m.state[4] = "NotResendable" THEN m            \* log only
         ELSE Trans(m, 2, Id, PreparingNode(m.state[2]))
    [] OTHER -> m

\* 'RESET.STEP' of Start (513), Continue (645), Verification (723): reenter
OnResetStep(m) ==
  CASE Top(m) = "Start" -> Trans(m, 0, Id, StartNode)
    [] Top(m) = "Continue" -> Trans(m, 0, Id, ContinueNode)
    [] Top(m) = V -> Trans(m, 0, Id, VerificationNode)
    [] OTHER -> m

\* 'AUTHENTICATE.WEB3': Start.Pending (565), else the root's sendTo('start', ...)
\* (399-401), which throws: the machine has no child with the id 'start'
OnAuthenticateWeb3(m) ==
  IF m.state = <<"Start", "Pending">> /\ ~isExampleMode(m)
  THEN Trans(m, 1, Id, <<"Start", "AttemptingWeb3">>)
  ELSE Throw(m)

\* invoke.onDone of the state node whose actor completed with `output`
OnDone(m, ev) ==
  LET p == m.state
      r == ev.output
      store(x) == setResource(x, r)
      next(x) == goToNextStep(setResource(x, r), r)
  IN CASE p = <<"Start", "Attempting">> ->
            goToNextStep(setFormDisabledTicketFields(setResource(m, r)), r)
       [] p \in {<<"Start", "AttemptingWeb3">>, <<"Continue", "Attempting">>} -> next(m)
       [] p = PreparingNode("EmailLink") -> Trans(m, 2, store, AttemptingNode("EmailLink"))
       [] p \in {PreparingNode(f) : f \in CodeFlows} ->
            IF isFieldUnverifiedThrows(m, ev) THEN Throw(m)
            ELSE IF (IF p[2] = "EmailCode" THEN shouldVerifyEmailCode(m, ev)
                     ELSE shouldVerifyPhoneCode(m, ev))
              THEN Trans(m, 2, store, PendingNode(p[2]))
            ELSE next(m)
       [] p \in {AttemptingNode(f) : f \in CodeFlows} -> next(m)
       [] OTHER -> m

\* invoke.onError without setFormErrors: the failure is not reported to the form
OnError_Silent(m) ==
  LET p == m.state
  IN CASE p \in {<<"Start", "Attempting">>, <<"Start", "AttemptingWeb3">>} ->
            Trans(m, 1, Id, <<"Start", "Pending">>)
       [] p = <<"Continue", "Attempting">> -> Trans(m, 1, Id, ContinueNode)
       [] p \in {PreparingNode(f) : f \in Flows} \cup {AttemptingNode(f) : f \in CodeFlows} ->
            Trans(m, 2, Id, PendingNode(p[2]))
       [] OTHER -> m

\* invoke.onError of the state node whose actor failed
OnError(m) ==
  LET p == m.state
  IN CASE p = <<"Start", "Attempting">> ->
            Trans(m, 1, LAMBDA x : setFormErrors(setFormDisabledTicketFields(x)),
                  <<"Start", "Pending">>)
       [] p = <<"Start", "AttemptingWeb3">> -> Trans(m, 1, setFormErrors, <<"Start", "Pending">>)
       [] p = <<"Continue", "Attempting">> -> Trans(m, 1, setFormErrors, ContinueNode)
       [] p \in {PreparingNode(f) : f \in Flows} \cup {AttemptingNode(f) : f \in CodeFlows} ->
            Trans(m, 2, setFormErrors, PendingNode(p[2]))
       [] OTHER -> m

\* 'EMAIL_LINK.RESTART' (766), 'EMAIL_LINK.FAILED' (770), 'EMAIL_LINK.*' (780) of EmailLink
\* the EMAIL_LINK.* events with RESTART left to the wildcard transition, which
\* stores the resource of the event and raises NEXT
OnEmailLink_RestartRaises(m, ev) ==
  IF ~(Top(m) = V /\ Len(m.state) >= 3 /\ m.state[2] = "EmailLink") THEN m
  ELSE CASE ev.type = "EMAIL_LINK.FAILED" ->
              Trans(m, 2, LAMBDA x : setResource(setFormErrors(x), ev.resource),
                    PendingNode("EmailLink"))
         [] OTHER ->
              [setResource(m, ev.resource) EXCEPT !.queue = Append(@, EvR("NEXT", ev.resource))]

OnEmailLink(m, ev) ==
  IF ~(Top(m) = V /\ Len(m.state) >= 3 /\ m.state[2] = "EmailLink") THEN m
  ELSE CASE ev.type = "EMAIL_LINK.RESTART" -> Trans(m, 1, Id, AttemptingNode("EmailLink"))
         [] ev.type = "EMAIL_LINK.FAILED" ->
              Trans(m, 2, LAMBDA x : setResource(setFormErrors(x), ev.resource),
                    PendingNode("EmailLink"))
         [] OTHER ->
              [setResource(m, ev.resource) EXCEPT !.queue = Append(@, EvR("NEXT", ev.resource))]

\* after: resendableTimeout of a NotResendable state node (853, 927, 1029)
OnResendableTimeout(m) ==
  IF ~(Len(m.state) = 4 /\ m.state[4] = "NotResendable") THEN m
  ELSE IF isResendable(m)
    THEN Trans(m, 3, resendableTick, SubSeq(m.state, 1, 3) \o <<"Resendable">>)
  ELSE Trans(m, 3, resendableTick, m.state)

\* the timeout of the e-mail link that moves to Pending and reports nothing
OnEmailLinkTimeout_Silent(m) ==
  IF ~(Len(m.state) = 4 /\ SubSeq(m.state, 1, 3) = <<V, "EmailLink", "Attempting">>) THEN m
  ELSE Trans(m, 2, Id, PendingNode("EmailLink"))

\* after: emailLinkTimeout of EmailLink.Attempting (831-840)
OnEmailLinkTimeout(m) ==
  IF ~(Len(m.state) = 4 /\ SubSeq(m.state, 1, 3) = <<V, "EmailLink", "Attempting">>) THEN m
  ELSE Trans(m, 2, setTimeoutError, PendingNode("EmailLink"))

\* the root's `on` (367-426) and the routing of an event to the handlers above
Micro(m, ev) ==
  CASE ev.type = "RESET" -> Trans(m, 0, Id, <<"Idle">>)
    [] ev.type = "NAVIGATE.START" -> Trans(m, 0, Id, StartNode)
       \* '.Hist': the root is never exited, so no history is recorded for it and
       \* the history state resolves to the root's initial state
    [] ev.type = "NAVIGATE.PREVIOUS" -> Trans(m, 0, Id, <<"Idle">>)
    [] ev.type \in {"AUTHENTICATE.OAUTH", "AUTHENTICATE.SAML"} -> SendToThirdParty(m, "REDIRECT")
    [] ev.type = "AUTHENTICATE.WEB3" -> OnAuthenticateWeb3(m)
    [] ev.type = "RESET.STEP" -> OnResetStep(m)
    [] ev.type = "SUBMIT" -> OnSubmit(m)
    [] ev.type = "RETRY" -> OnRetry(m)
    [] ev.type = "NEXT" -> OnNext(m, ev)
    [] ev.type = "xstate.done.actor" -> OnDone(m, ev)
    [] ev.type = "xstate.error.actor" -> OnError(m)
    [] ev.type \in {"EMAIL_LINK.RESTART", "EMAIL_LINK.FAILED", "EMAIL_LINK.VERIFIED"} ->
         OnEmailLink(m, ev)
    [] ev.type = "xstate.after.resendableTimeout" -> OnResendableTimeout(m)
    [] ev.type = "xstate.after.emailLinkTimeout" -> OnEmailLinkTimeout(m)
    [] OTHER -> m

----------------------------------------------------------------------------
(* Eventless transitions. Each answers whether one fired, the machine after *)
(* it, and whether the snapshot is the same object as before (a transition  *)
(* without target whose actions assign nothing), in which case the macrostep *)
(* selects no further eventless transition.                                 *)

Fired(m, same) == [fired |-> TRUE, m |-> m, same |-> same]
NotFired(m) == [fired |-> FALSE, m |-> m, same |-> TRUE]

AfterSignUpTarget(m) == IF m.initEnv.redirect THEN "redirect_url" ELSE "afterSignUpUrl"

\* states.Init.always (468-508)
InitAlways(m, ev) ==
  IF isLoggedInAndSingleSession(m, ev)
    THEN Fired(navigateExternal(m, AfterSignUpTarget(m)), TRUE)
  ELSE IF needsCallback(m) THEN Fired(Trans(m, 0, Id, <<"Callback">>), FALSE)
  ELSE IF hasTicket(m)
    THEN Fired(Trans(m, 0, LAMBDA x : navigateInternal(x, "/", TRUE), StartNode), FALSE)
  ELSE IF needsVerification(m, ev)
    THEN Fired(Trans(m, 0, LAMBDA x : navigateInternal(x, "/verify", TRUE), VerificationNode),
               FALSE)
  ELSE IF needsContinue(m, ev) \/ hasClerkTransfer(m)
    THEN Fired(Trans(m, 0, LAMBDA x : navigateInternal(x, "/continue", TRUE), ContinueNode),
               FALSE)
  ELSE IF isRestrictedWithoutTicket(m) THEN Fired(Trans(m, 0, Id, <<"Restricted">>), FALSE)
  ELSE Fired(Trans(m, 0, LAMBDA x : navigateInternal(x, "/", TRUE), StartNode), FALSE)

\* states.Start.states.Init.always (546-554)
StartInitAlways(m) ==
  IF hasTicket(m) THEN Fired(Trans(m, 1, Id, <<"Start", "Attempting">>), FALSE)
  ELSE Fired(Trans(m, 1, Id, <<"Start", "Pending">>), FALSE)

\* states.Verification.always (702-721). The first action of the first branch is
\* a function that returns an action object, which nothing executes.
VerificationAlways(m) ==
  IF hasCreatedSession(m) THEN Fired(delayedReset(m), TRUE)
  ELSE IF hasClerkStatusIs(m, "verified")
    THEN Fired(navigateInternal(m, "/continue", TRUE), TRUE)
  ELSE IF hasClerkStatusIs(m, "expired") THEN Fired(navigateInternal(m, "/", TRUE), TRUE)
  ELSE NotFired(m)

\* Verification.Init with the e-mail link branch tried before the phone code branch
VerificationInitAlways_LinkFirst(m, ev) ==
  IF isFieldUnverifiedThrows(m, ev) THEN Fired(Throw(m), FALSE)
  ELSE IF shouldVerifyEmailLink(m, ev)
    THEN Fired(Trans(m, 1, Id, PreparingNode("EmailLink")), FALSE)
  ELSE IF shouldVerifyPhoneCode(m, ev)
    THEN Fired(Trans(m, 1, Id, PreparingNode("PhoneCode")), FALSE)
  ELSE IF shouldVerifyEmailCode(m, ev)
    THEN Fired(Trans(m, 1, Id, PreparingNode("EmailCode")), FALSE)
  ELSE NotFired(m)

\* states.Verification.states.Init.always (743-759)
VerificationInitAlways(m, ev) ==
  IF isFieldUnverifiedThrows(m, ev) THEN Fired(Throw(m), FALSE)
  ELSE IF shouldVerifyPhoneCode(m, ev)
    THEN Fired(Trans(m, 1, Id, PreparingNode("PhoneCode")), FALSE)
  ELSE IF shouldVerifyEmailLink(m, ev)
    THEN Fired(Trans(m, 1, Id, PreparingNode("EmailLink")), FALSE)
  ELSE IF shouldVerifyEmailCode(m, ev)
    THEN Fired(Trans(m, 1, Id, PreparingNode("EmailCode")), FALSE)
  ELSE NotFired(m)

\* the eventless transition of the active leaf or, when it has none enabled, of
\* its nearest ancestor that has
Eventless(m, ev) ==
  CASE m.state = <<"Init">> -> InitAlways(m, ev)
    [] m.state = StartNode -> StartInitAlways(m)
    [] m.state = VerificationNode ->
         IF VerificationInitAlways(m, ev).fired THEN VerificationInitAlways(m, ev)
         ELSE VerificationAlways(m)
    [] Top(m) = V /\ m.state # VerificationNode -> VerificationAlways(m)
    [] OTHER -> NotFired(m)

\* the macrostep after the first microstep: eventless transitions first, then the
\* raised events in order, until neither is left or the actor has stopped
RECURSIVE Settle(_, _, _)
Settle(m, ev, select) ==
  IF m.status # "active" THEN m
  ELSE IF select /\ Eventless(m, ev).fired
    THEN Settle(Eventless(m, ev).m, ev, ~Eventless(m, ev).same)
  ELSE IF m.queue # <<>>
    THEN Settle(Micro([m EXCEPT !.queue = Tail(@)], Head(m.queue)), Head(m.queue), TRUE)
  ELSE m

Macrostep(m, ev) == Settle(Micro([m EXCEPT !.out = NoOut], ev), ev, TRUE)

----------------------------------------------------------------------------
(* The state after construction (createMachine: context {}, initial 'Idle') *)

\* context.resendableAfter before the first resendableReset: undefined, for which
\* both `=== 0` and `> 0` are false
Undefined == 0 - 1

NotLoading == [isLoading |-> FALSE, step |-> "undefined"]

Init ==
  /\ status = "active"
  /\ state = <<"Idle">>
  /\ context = [inited |-> FALSE, resource |-> NoResource, ticket |-> "none",
                loading |-> NotLoading, resendable |-> FALSE,
                resendableAfter |-> Undefined, exampleMode |-> FALSE, formRef |-> 0]
  /\ signUp = Res("null", FALSE, FALSE, {})
  /\ router = [path |-> "/", status |-> "none", createdSession |-> FALSE, virtual |-> FALSE]
  /\ settings = [emailVerifications |-> {}]
  /\ initEnv = NoInitEnv
  /\ invoked = "none"
  /\ orphans = 0
  /\ resets = 0
  /\ child = 0
  /\ linkTimer = 0
  /\ out = NoOut

\* The machine after a macrostep. An actor whose transition threw is stopped with
\* status "error": it keeps the snapshot it had and its scheduled events are cancelled.
Commit(n) ==
  IF n.status = "error"
  THEN /\ status' = "error"
       /\ resets' = 0
       /\ linkTimer' = 0
       /\ UNCHANGED <<state, context, signUp, router, settings, initEnv, invoked,
                      orphans, child, out>>
  ELSE /\ status' = n.status
       /\ state' = n.state
       /\ context' = n.ctx
       /\ signUp' = n.signUp
       /\ router' = n.router
       /\ settings' = n.settings
       /\ initEnv' = n.initEnv
       /\ invoked' = n.invoked
       /\ orphans' = n.orphans
       /\ resets' = n.resets
       /\ child' = n.child
       /\ linkTimer' = n.timer
       /\ out' = n.out

Send(ev) == Commit(Macrostep(M, ev))

----------------------------------------------------------------------------
(* The INIT event: what event.clerk, event.router, event.formRef and         *)
(* event.exampleMode hold when it is sent                                    *)

\* the URL the router reports: path below the base path, __clerk_status,
\* __clerk_created_session
Urls ==
  [path : {"/", "/continue", "/sso-callback"}, status : {"none"}, createdSession : {FALSE}]
  \cup [path : {"/verify"}, status : {"none", "verified", "expired"},
        createdSession : BOOLEAN]

\* values of the __clerk_ticket and __clerk_invitation_token parameters
Tickets == [ticket : {"none", "tA"}, invitationToken : {"none", "tB"}]

VerificationSettings == {{}, {"email_code"}, {"email_link", "email_code"}}

InitInputs ==
  [signUp : Resources, url : Urls, tickets : Tickets,
   verifications : VerificationSettings,
   user : BOOLEAN, single : BOOLEAN, restricted : BOOLEAN, transfer : BOOLEAN,
   redirect : BOOLEAN, exampleMode : BOOLEAN, virtual : BOOLEAN]

\* The sessions followed through the whole flow under every event (Sessions): an
\* application at its root path, in single-session mode, that verifies e-mail
\* addresses by link (LinkInput). DefaultInput verifies them by code.
DefaultInput ==
  [signUp |-> Res("null", FALSE, FALSE, {}),
   url |-> [path |-> "/", status |-> "none", createdSession |-> FALSE],
   tickets |-> [ticket |-> "none", invitationToken |-> "none"],
   verifications |-> {"email_code"},
   user |-> FALSE, single |-> TRUE, restricted |-> FALSE, transfer |-> FALSE,
   redirect |-> FALSE, exampleMode |-> FALSE, virtual |-> FALSE]

LinkInput == [DefaultInput EXCEPT !.verifications = {"email_link", "email_code"}]

Sessions == {LinkInput}

\* states.Idle.on.INIT.actions: the assign (431-448)
InitAssign(m, i) ==
  [m EXCEPT !.ctx.inited = TRUE,
            !.ctx.loading = NotLoading,
            !.ctx.exampleMode = i.exampleMode,
            !.ctx.formRef = 1,
            !.ctx.ticket = IF i.tickets.ticket # "none" THEN i.tickets.ticket
                           ELSE i.tickets.invitationToken,
            !.signUp = i.signUp,
            !.router = [path |-> i.url.path, status |-> i.url.status,
                        createdSession |-> i.url.createdSession, virtual |-> i.virtual],
            !.settings = [emailVerifications |-> i.verifications],
            !.initEnv = [user |-> i.user, single |-> i.single,
                         restricted |-> i.restricted, transfer |-> i.transfer,
                         redirect |-> i.redirect]]

OnInit(m, i) ==
  IF m.state = <<"Idle">> THEN Trans(m, 0, LAMBDA x : InitAssign(x, i), <<"Init">>) ELSE m

----------------------------------------------------------------------------
(* The steps *)

\* the macrostep of INIT with input i
AfterInit(m, i) == Settle(OnInit([m EXCEPT !.out = NoOut], i), Ev("INIT"), TRUE)

\* INIT sent with one of the inputs of `inputs`
InitWith(inputs) ==
  \E i \in inputs :
    /\ status = "active"
    /\ state = <<"Idle">>
    /\ Commit(AfterInit(M, i))

INIT == InitWith(Sessions)

RESET == status = "active" /\ Send(Ev("RESET"))

\* the delayed RESET raised by delayedReset is delivered
DelayedReset ==
  /\ status = "active"
  /\ resets > 0
  /\ Commit(Macrostep([M EXCEPT !.resets = @ - 1], Ev("RESET")))

SUBMIT == status = "active" /\ Send(Ev("SUBMIT"))
RETRY == status = "active" /\ Send(Ev("RETRY"))
\* NEXT, with or without a resource; clerk.client.lastActiveSessionId is read by the
\* guards of Callback alone
NEXT ==
  /\ status = "active"
  /\ \E r \in MaybeResource, l \in IF state = <<"Callback">> THEN BOOLEAN ELSE {FALSE} :
       Send([EvR("NEXT", r) EXCEPT !.lastActive = l])
NavigateStart == status = "active" /\ Send(Ev("NAVIGATE.START"))
NavigatePrevious == status = "active" /\ Send(Ev("NAVIGATE.PREVIOUS"))
AuthenticateRedirect ==
  /\ status = "active"
  /\ \E t \in {"AUTHENTICATE.OAUTH", "AUTHENTICATE.SAML"} : Send(Ev(t))
AuthenticateWeb3 == status = "active" /\ Send(Ev("AUTHENTICATE.WEB3"))
ResetStep == status = "active" /\ Send(Ev("RESET.STEP"))

\* 'FORM.ATTACH' (402-412): assign formRef, raise RESET.STEP
FormAttach ==
  \E f \in 1..MaxFormRef :
    /\ status = "active"
    /\ Commit(Settle([M EXCEPT !.out = NoOut, !.ctx.formRef = f,
                               !.queue = <<Ev("RESET.STEP")>>],
                     Ev("FORM.ATTACH"), TRUE))

\* LOADING (415-424): assign loading from the event
LOADING ==
  \E l \in BOOLEAN :
    /\ status = "active"
    /\ Commit(Settle([M EXCEPT !.out = NoOut,
                               !.ctx.loading = [isLoading |-> l, step |-> "undefined"]],
                     Ev("LOADING"), TRUE))

\* the EMAIL_LINK.* events, which the running attemptEmailLinkVerification actor
\* sends to the machine: RESTART, or FAILED and VERIFIED with the resource it polled
EmailLinkEvent ==
  /\ status = "active"
  /\ invoked = "attemptEmailLinkVerification"
  /\ \/ Send(Ev("EMAIL_LINK.RESTART"))
     \/ \E t \in {"EMAIL_LINK.FAILED", "EMAIL_LINK.VERIFIED"}, r \in Resources :
          Send(EvR(t, r))

\* the identity client answers the call of the running actor with resource r,
\* which is also the resource the client caches from then on
ClientAnswers(m, r) == [m EXCEPT !.signUp = r, !.invoked = "none"]

ActorDone ==
  \E r \in Resources :
    /\ status = "active"
    /\ invoked \in PromiseActors
    /\ Commit(Macrostep(ClientAnswers(M, r), EvDone(r)))

ActorError ==
  /\ status = "active"
  /\ invoked \in PromiseActors
  /\ Commit(Macrostep([M EXCEPT !.invoked = "none"], Ev("xstate.error.actor")))

ResendableTimeout ==
  /\ status = "active"
  /\ Len(state) = 4 /\ state[4] = "NotResendable"
  /\ Send(Ev("xstate.after.resendableTimeout"))

\* time passes while the e-mail link is awaited
LinkTimerTick ==
  /\ status = "active"
  /\ Len(state) = 4 /\ SubSeq(state, 1, 3) = <<V, "EmailLink", "Attempting">>
  /\ linkTimer < emailLinkTimeout
  /\ linkTimer' = linkTimer + 1
  /\ UNCHANGED <<status, state, context, signUp, router, settings, initEnv, invoked,
                 orphans, resets, child, out>>

\* the delay emailLinkTimeout has elapsed: the delayed event is delivered
EmailLinkTimeout ==
  /\ status = "active"
  /\ Len(state) = 4 /\ SubSeq(state, 1, 3) = <<V, "EmailLink", "Attempting">>
  /\ linkTimer = emailLinkTimeout
  /\ Send(Ev("xstate.after.emailLinkTimeout"))

\* what a call whose actor was stopped answers: a completed sign-up, or a failure
\* (NoResource), which leaves the client's cache as it is
StaleAnswers == {Res("complete", TRUE, FALSE, {}), NoResource}

\* a call whose actor was stopped completes: nothing is delivered to the machine
StoppedCallCompletes ==
  /\ orphans > 0
  /\ orphans' = orphans - 1
  /\ \E r \in StaleAnswers :
       signUp' = IF r = NoResource THEN signUp ELSE r
  /\ UNCHANGED <<status, state, context, router, settings, initEnv, invoked,
                 resets, child, linkTimer, out>>

\* the first INIT of a machine, with any input
InitAny == ~context.inited /\ InitWith(InitInputs)

Next ==
  \/ INIT
  \/ RESET
  \/ DelayedReset
  \/ SUBMIT
  \/ RETRY
  \/ NEXT
  \/ NavigateStart
  \/ NavigatePrevious
  \/ AuthenticateRedirect
  \/ AuthenticateWeb3
  \/ ResetStep
  \/ FormAttach
  \/ LOADING
  \/ EmailLinkEvent
  \/ ActorDone
  \/ ActorError
  \/ ResendableTimeout
  \/ LinkTimerTick
  \/ EmailLinkTimeout
  \/ StoppedCallCompletes

Spec == Init /\ [][Next]_vars

TicketInput == [DefaultInput EXCEPT !.tickets.ticket = "tA"]
ExampleInput == [DefaultInput EXCEPT !.exampleMode = TRUE]
ExampleTicketInput == [TicketInput EXCEPT !.exampleMode = TRUE]

\* Sessions under each of the e-mail verification settings, with a ticket and in
\* example mode, followed through the sign-up flow itself: the user's and the
\* identity client's events, the timers
FlowSessions ==
  {[DefaultInput EXCEPT !.verifications = v] : v \in VerificationSettings}
    \cup {TicketInput, ExampleInput, ExampleTicketInput}

InitFlow == InitWith(FlowSessions)

FlowNext ==
  \/ InitFlow
  \/ RESET
  \/ DelayedReset
  \/ SUBMIT
  \/ RETRY
  \/ NEXT
  \/ NavigateStart
  \/ NavigatePrevious
  \/ AuthenticateWeb3
  \/ EmailLinkEvent
  \/ ActorDone
  \/ ActorError
  \/ ResendableTimeout
  \/ LinkTimerTick
  \/ EmailLinkTimeout

FlowSpec == Init /\ [][FlowNext]_vars

\* The calls and their failures while the loading projection is also set from
\* outside (LOADING): sessions that verify by code, by link, and the example-mode
\* session with a ticket, left by the delayed RESET alone
FailSessions == {DefaultInput, LinkInput, ExampleTicketInput}

InitFail == InitWith(FailSessions)

FailNext ==
  \/ InitFail
  \/ DelayedReset
  \/ SUBMIT
  \/ RETRY
  \/ NEXT
  \/ AuthenticateWeb3
  \/ LOADING
  \/ EmailLinkEvent
  \/ ActorDone
  \/ ActorError
  \/ ResendableTimeout
  \/ LinkTimerTick
  \/ EmailLinkTimeout

FailSpec == Init /\ [][FailNext]_vars

\* Every event that can exit a state node while its call is in flight, and the
\* later completion of the stopped call
StaleNext ==
  \/ INIT
  \/ RESET
  \/ DelayedReset
  \/ SUBMIT
  \/ RETRY
  \/ NEXT
  \/ NavigateStart
  \/ NavigatePrevious
  \/ AuthenticateWeb3
  \/ ResetStep
  \/ FormAttach
  \/ EmailLinkEvent
  \/ ActorDone
  \/ ActorError
  \/ ResendableTimeout
  \/ LinkTimerTick
  \/ EmailLinkTimeout
  \/ StoppedCallCompletes

StaleSpec == Init /\ [][StaleNext]_vars

\* Every way a machine can be initialised, and its reset: the routing of Init
RouteNext ==
  \/ InitAny
  \/ RESET

RouteSpec == Init /\ [][RouteNext]_vars

\* A machine left alone once a delayed RESET is scheduled: no other event is sent
\* until the delay has elapsed. The timer delivers the event it holds (weak
\* fairness): the delay is finite and the actor's clock keeps running.
QuietNext ==
  \/ resets = 0 /\ InitFlow
  \/ resets = 0 /\ SUBMIT
  \/ resets = 0 /\ RETRY
  \/ resets = 0 /\ NEXT
  \/ resets = 0 /\ AuthenticateWeb3
  \/ resets = 0 /\ EmailLinkEvent
  \/ resets = 0 /\ ActorDone
  \/ resets = 0 /\ ActorError
  \/ resets = 0 /\ ResendableTimeout
  \/ resets = 0 /\ LinkTimerTick
  \/ resets = 0 /\ EmailLinkTimeout
  \/ DelayedReset

\* a step that takes one scheduled RESET off the timer: in QuietNext, a step of
\* DelayedReset and no other
ResetDelivered == status = "active" /\ resets > 0 /\ resets' = resets - 1

QuietSpec == Init /\ [][QuietNext]_vars /\ WF_resets(ResetDelivered)

----------------------------------------------------------------------------
(* Claims *)

\* what the routing order of Init is stated over: the sign-up the client holds, the
\* path and the parameters of the URL, and the instance settings, at INIT
LoggedIn(i) == i.user \/ Completed(i.signUp)
TicketPresent(i) == i.tickets.ticket # "none" \/ i.tickets.invitationToken # "none"
RequiresVerification(i) ==
  \/ i.signUp.status = "missing_requirements" /\ i.signUp.unverified # {}
  \/ i.signUp.missing /\ i.url.status # "none"
MissesRequiredFields(i) == i.signUp.status = "missing_requirements" /\ i.signUp.missing

\* the step the stated order selects for input i ("Init": no step is entered)
StatedRoute(i) ==
  IF LoggedIn(i) /\ i.single /\ ~i.exampleMode THEN "Init"
  ELSE IF i.url.path = "/sso-callback" THEN "Callback"
  ELSE IF TicketPresent(i) THEN "Start"
  ELSE IF RequiresVerification(i) /\ i.url.path = "/verify" THEN V
  ELSE IF MissesRequiredFields(i) \/ i.transfer THEN "Continue"
  ELSE IF i.restricted /\ ~TicketPresent(i) THEN "Restricted"
  ELSE "Start"

\* C1: the first INIT of a machine, whatever its input, leaves the machine running
\* in the step that the stated order selects: logged in and single-session and not
\* example mode -> no step (external navigation); callback path -> Callback; ticket
\* -> Start; verification required and path /verify -> Verification; required
\* fields missing or transfer flag -> Continue; restricted without ticket ->
\* Restricted; otherwise Start.
C1_InitOrder ==
  (status = "active" /\ state = <<"Idle">> /\ ~context.inited) =>
    \A i \in InitInputs :
      LET n == AfterInit(M, i)
      IN  /\ n.status = "active"
          /\ Top(n) = StatedRoute(i)
          /\ (StatedRoute(i) = "Init") = (n.out.navs # <<>> /\ n.out.navs[1].kind = "push")

\* the sub-flow that the stated priority selects for a resource: "any" where the
\* statement leaves the choice open
StatedFlow(r, enabled) ==
  IF {"phone_number", "email_address"} \subseteq r.unverified THEN "PhoneCode"
  ELSE IF r.unverified = {"email_address"} /\ "email_link" \in enabled THEN "EmailLink"
  ELSE IF r.unverified = {"email_address"} /\ "email_code" \in enabled THEN "EmailCode"
  ELSE "any"

\* machine n has just started the prepare call of a sub-flow
Selected(n) ==
  /\ n.status = "active"
  /\ Len(n.state) = 3 /\ n.state[1] = V /\ n.state[3] = "Preparing"
  /\ n.out.calls # <<>>

\* (the enabled strategies are those of the current state: only INIT assigns them)
SelectedAsStated(n, r) ==
  StatedFlow(r, settings.emailVerifications) # "any" /\ Selected(n)
    => n.state[2] = StatedFlow(r, n.settings.emailVerifications)

\* C2: whenever a NEXT event or the success of a call leads the machine through
\* Verification.Init into a sub-flow, the sub-flow is PhoneCode if the resource
\* the guards read lists both phone_number and email_address as unverified, and,
\* if it lists only email_address, EmailLink when email_link is enabled, else
\* EmailCode when email_code is enabled. (NEXT in EmailLink.Pending restarts the
\* link flow without passing through Verification.Init.)
C2_StrategyPriority ==
  status = "active" =>
    /\ state # PendingNode("EmailLink") =>
         \A r \in MaybeResource :
           SelectedAsStated(Macrostep(M, EvR("NEXT", r)),
                            IF r = NoResource THEN context.resource ELSE r)
    /\ invoked \in PromiseActors =>
         \A r \in Resources :
           SelectedAsStated(Macrostep(ClientAnswers(M, r), EvDone(r)), r)

\* C2 witness: with e-mail links enabled, a resource with both fields unverified
\* has been routed to the phone code flow
C2_Witness ==
  /\ state = PreparingNode("PhoneCode")
  /\ context.resource.unverified = {"email_address", "phone_number"}
  /\ "email_link" \in settings.emailVerifications

\* the Pending states and the Attempting state of the same step or sub-flow
IsPending(p) ==
  \/ p \in {<<"Start", "Pending">>, <<"Continue", "Pending">>}
  \/ Len(p) = 4 /\ p[1] = V /\ p[3] = "Pending"
AttemptingOf(p) == IF p[1] = V THEN <<V, p[2], "Attempting">> ELSE <<p[1], "Attempting">>

\* the machine after SUBMIT
AfterSubmit == Macrostep(M, Ev("SUBMIT"))

\* C3: in every reachable state, SUBMIT starts at most one call and stops none;
\* while a call is running (Attempting, Preparing) it changes nothing and starts
\* no call; it brings the machine into an Attempting state only from the Pending
\* state of the same step or sub-flow, with the attempt as the one call started,
\* and from a Pending state it leads nowhere else.
C3_OneOperation ==
  status = "active" =>
    LET n == AfterSubmit
        attempts == n.state # state /\ n.state[Len(n.state)] = "Attempting"
    IN  /\ n.status = "active"
        /\ Len(n.out.calls) <= 1
        /\ n.orphans = orphans
        /\ invoked # "none" =>
              n.state = state /\ n.invoked = invoked /\ n.out.calls = <<>>
        /\ attempts =>
              /\ IsPending(state)
              /\ n.state = AttemptingOf(state)
              /\ n.invoked = InvokeId(n.state) /\ n.out.calls = <<n.invoked>>
        /\ IsPending(state) /\ n.state # state => attempts

\* C3 witness: SUBMIT in Start.Pending has started the one attempt
C3_Witness ==
  /\ state = <<"Start", "Attempting">>
  /\ invoked = "startAttempt"
  /\ out.calls = <<"startAttempt">>
  /\ orphans = 0

\* the machine after the running call has succeeded with resource r
AfterDone(r) == Macrostep(ClientAnswers(M, r), EvDone(r))

\* what a returned resource asks for
NeedsVerificationOf(r) ==
  \/ r.status = "missing_requirements" /\ r.unverified # {}
  \/ r.missing /\ router.status # "none"
NeedsContinuationOf(r) == r.status = "missing_requirements" /\ r.missing

\* the outcome of a successful Start attempt with resource r, as stated: the
\* resource is stored, and the first branch that applies is taken; `activates`
\* tells whether a complete resource has its session activated
StartNextAsStated(r, activates) ==
  LET n == AfterDone(r)
  IN  /\ n.status = "active"
      /\ n.ctx.resource = r
      /\ IF Completed(r)
            THEN /\ n.out.active = IF activates THEN <<"created">> ELSE <<>>
                 /\ n.resets >= 1
                 /\ n.state = state /\ n.out.calls = <<>>
          ELSE /\ n.out.active = <<>>
               /\ n.resets = resets
               /\ IF context.ticket # "none" /\ NeedsContinuationOf(r)
                     THEN n.state = <<"Start", "Attempting">>
                          /\ n.out.calls = <<"startAttempt">>
                   ELSE IF NeedsVerificationOf(r) THEN Top(n) = V
                   ELSE IF NeedsContinuationOf(r) THEN n.state = ContinueNode
                   ELSE n.state = state /\ n.out.calls = <<>>

StartAttemptRuns == status = "active" /\ invoked \in {"startAttempt", "startAttemptWeb3"}

AfterError == Macrostep([M EXCEPT !.invoked = "none"], Ev("xstate.error.actor"))

CallRuns == status = "active" /\ invoked \in PromiseActors

\* the Pending state of the step, or of the verification sub-flow, of state node p
PendingOf(p) == IF p[1] = V THEN PendingNode(p[2]) ELSE <<p[1], "Pending">>

AcceptsSubmit(n) == OnSubmit(n).state # n.state
AcceptsRetry(n) == OnRetry(n).state # n.state

\* what every failure does: the error goes to the form, the resource stays, the
\* machine rests in the Pending state of the same step or sub-flow
FailureHandled(n) ==
  /\ n.status = "active"
  /\ n.out.form = <<"ERRORS.SET">>
  /\ n.ctx.resource = context.resource
  /\ n.state = PendingOf(state)
  /\ n.invoked = "none"

\* C5 as stated: a failed operation sends ERRORS.SET, leaves context.resource
\* unchanged, ends loading and moves to the Pending state of the same step or
\* sub-flow, where SUBMIT is accepted again
C5_FailureRecovers_Stated ==
  CallRuns =>
    LET n == AfterError
    IN  /\ FailureHandled(n)
        /\ ~n.ctx.loading.isLoading
        /\ AcceptsSubmit(n)

\* C5, amended: a failed operation sends ERRORS.SET, leaves context.resource
\* unchanged and moves to the Pending state of the same step or sub-flow. A failed
\* attempt ends loading; a failed prepare leaves loading as it was. SUBMIT is
\* accepted again there, except in EmailLink.Pending, which accepts RETRY, and in
\* Start.Pending in example mode, which like every state accepts RESET.
C5_FailureRecovers ==
  CallRuns =>
    LET n == AfterError
        prepares == state[Len(state)] = "Preparing"
        byLink == Top(M) = V /\ state[2] = "EmailLink"
        example == Top(M) = "Start" /\ context.exampleMode
    IN  /\ FailureHandled(n)
        /\ n.ctx.loading.isLoading = (prepares /\ context.loading.isLoading)
        /\ AcceptsSubmit(n) = ~(byLink \/ example)
        /\ byLink => AcceptsRetry(n)
        /\ Micro(n, Ev("RESET")).state = <<"Idle">>

\* C5: the preparation of the e-mail code has failed while loading was set from
\* outside; the machine rests in EmailCode.Pending, the error sent, still loading
C5_Witness ==
  /\ state = PendingNode("EmailCode")
  /\ out.form = <<"ERRORS.SET">>
  /\ context.loading.isLoading
  /\ invoked = "none"

\* the outcome of a Start attempt that succeeds with the complete resource r: the
\* session is activated (or not), one RESET is scheduled, and the machine that
\* processes this RESET is in Idle
CompletionAsStated(r, activates) ==
  LET n == AfterDone(r)
  IN  /\ n.status = "active"
      /\ n.out.active = IF activates THEN <<"created">> ELSE <<>>
      /\ n.resets = Sat(resets, MaxResets)
      /\ Macrostep([n EXCEPT !.resets = @ - 1], Ev("RESET")).state = <<"Idle">>

AfterReset == Macrostep(M, Ev("RESET"))

\* C7: a RESET processed while a delayed RESET is scheduled returns the machine to
\* Idle and cancels the scheduled RESET, so that none is delivered afterwards
C7_ResetCancelsDelayed ==
  (status = "active" /\ resets > 0) =>
    (AfterReset.state = <<"Idle">> /\ AfterReset.resets = 0)

\* C9: RESET is accepted in every state and returns the machine to Idle with
\* nothing of the previous session in the context: no resource, not loading; and
\* the INIT that follows starts from no resource either
C9_ResetClearsContext ==
  status = "active" =>
    /\ AfterReset.status = "active"
    /\ AfterReset.state = <<"Idle">>
    /\ AfterReset.ctx.resource = NoResource
    /\ ~AfterReset.ctx.loading.isLoading
    /\ \A i \in FlowSessions :
         LET k == AfterInit(AfterReset, i)
         IN  k.status = "active" => k.ctx.resource = NoResource

\* the field a code flow verifies
FieldOf(f) == IF f = "EmailCode" THEN "email_address" ELSE "phone_number"

CodePrepareRuns ==
  /\ status = "active"
  /\ invoked \in {"prepareEmailAddressCodeVerification", "preparePhoneCodeVerification"}

\* C10: when the Preparing of a code flow succeeds with resource r, r is stored,
\* and the machine enters the flow's Pending exactly when r still lists the
\* flow's field as unverified; otherwise Pending is skipped
C10_PrepareSkipsPending ==
  CodePrepareRuns =>
    \A r \in Resources :
      /\ AfterDone(r).status = "active"
      /\ AfterDone(r).ctx.resource = r
      /\ (AfterDone(r).state = PendingNode(state[2])) = (FieldOf(state[2]) \in r.unverified)

\* the state node that invokes actor a is active
InvokerActive(a) == \E k \in 1..Len(state) : InvokeId(SubSeq(state, 1, k)) = a

CountsDown == status = "active" /\ Len(state) = 4 /\ state[4] = "NotResendable"

\* the machine after the tick of the countdown (after: resendableTimeout)
AfterTick == Macrostep(M, Ev("xstate.after.resendableTimeout"))

\* C11: context.resendableAfter is never negative (it is undefined until the first
\* Preparing is left); a tick decreases it by exactly 1 while it is positive and
\* leaves it at 0; a step changes it only by such a tick, or by leaving Preparing
\* (be it to enter it again), which sets it to the default
C11_CountdownNeverNegative ==
  /\ [](/\ context.resendableAfter = Undefined \/ context.resendableAfter >= 0
        /\ CountsDown =>
             /\ context.resendableAfter >= 0
             /\ AfterTick.ctx.resendableAfter =
                  IF context.resendableAfter > 0 THEN context.resendableAfter - 1 ELSE 0)
  /\ [][context.resendableAfter' # context.resendableAfter =>
          \/ /\ CountsDown
             /\ context.resendableAfter > 0
             /\ context.resendableAfter' = context.resendableAfter - 1
          \/ /\ state[Len(state)] = "Preparing"
             /\ context.resendableAfter' = ResendableCountdown]_vars

\* C11: the countdown has run out and one more tick has come: the value is 0, not
\* below, and the machine has moved to Resendable
C11_Witness ==
  /\ Len(state) = 4 /\ state[4] = "Resendable"
  /\ context.resendableAfter = 0
  /\ context.resendable

\* C12: in the state a tick produces, resendableAfter = 0 implies resendable; and
\* a tick never takes resendable from true to false
C12_ResendableAtZero ==
  CountsDown =>
    /\ AfterTick.ctx.resendableAfter = 0 => AfterTick.ctx.resendable
    /\ context.resendable => AfterTick.ctx.resendable

\* the machine rests in the Pending of a code sub-flow
InCodePending ==
  /\ status = "active"
  /\ Len(state) = 4 /\ state[1] = V /\ state[2] \in CodeFlows /\ state[3] = "Pending"

AfterRetry == Macrostep(M, Ev("RETRY"))

\* C13: in the Pending of PhoneCode and EmailCode, RETRY in NotResendable changes
\* neither the control state nor the context and starts no call; RETRY in
\* Resendable enters Preparing and starts the prepare call
C13_RetryNotResendable ==
  InCodePending =>
    IF state[4] = "NotResendable"
      THEN /\ AfterRetry.status = "active"
           /\ AfterRetry.state = state
           /\ AfterRetry.ctx = context
           /\ AfterRetry.invoked = invoked
           /\ AfterRetry.out.calls = <<>>
           /\ AfterRetry.out.form = <<>>
      ELSE /\ AfterRetry.state = PreparingNode(state[2])
           /\ AfterRetry.out.calls = <<InvokeId(PreparingNode(state[2]))>>

\* C13: after the countdown has run out, the phone code is being prepared again
C13_Witness ==
  /\ state = PreparingNode("PhoneCode")
  /\ invoked = "preparePhoneCodeVerification"
  /\ out.calls = <<"preparePhoneCodeVerification">>
  /\ context.resendable
  /\ context.resendableAfter = 0

InVerification == status = "active" /\ Top(M) = V

\* the code attempt of a sub-flow is running
CodeAttemptRuns ==
  /\ status = "active"
  /\ invoked \in {"attemptEmailAddressCodeVerification", "attemptPhoneNumberVerification"}

\* NEXT event ev, which led to n, was decided by the table of Verification: complete
\* -> session activated (or not) and RESET scheduled; continuation needed ->
\* Continue; otherwise -> the sub-flow selection of Verification.Init, which ends in
\* Verification or fails for want of a resource
RoutedByVerification(ev, n, activates) ==
  IF isComplete(M, ev)
    THEN /\ n.status = "active"
         /\ Len(n.out.active) = (IF activates THEN 1 ELSE 0)
         /\ n.resets = Sat(resets, MaxResets)
         /\ Top(n) = V
  ELSE IF statusNeedsContinue(M, ev)
    THEN n.status = "active" /\ n.state = ContinueNode /\ n.out.active = <<>>
  ELSE \/ n.status = "error"
       \/ n.status = "active" /\ Top(n) = V /\ n.out.active = <<>> /\ n.resets = resets

\* a successful code attempt with resource r stores r, and the NEXT it raises is
\* decided on r
AttemptStoresFirst(r, activates) ==
  LET n == AfterDone(r)
  IN  /\ n.status = "active" => n.ctx.resource = r
      /\ Completed(r) => Len(n.out.active) = (IF activates THEN 1 ELSE 0)
      /\ (~Completed(r) /\ NeedsContinuationOf(r)) => n.state = ContinueNode

\* C14 as stated: every NEXT received within Verification is decided by the table
\* of Verification, a complete sign-up having its session activated; a successful
\* code attempt stores the returned resource before NEXT is evaluated
C14_VerificationNext_Stated ==
  /\ InVerification =>
       \A r \in MaybeResource :
         RoutedByVerification(EvR("NEXT", r), Macrostep(M, EvR("NEXT", r)), TRUE)
  /\ CodeAttemptRuns => \A r \in Resources : AttemptStoresFirst(r, TRUE)

\* C14, amended: the same, except that EmailLink.Pending handles NEXT itself, by
\* entering Preparing again, and that in example mode no session is activated
C14_VerificationNext ==
  /\ InVerification =>
       \A r \in MaybeResource :
         LET n == Macrostep(M, EvR("NEXT", r))
         IN  IF state = PendingNode("EmailLink")
               THEN /\ n.state = PreparingNode("EmailLink")
                    /\ n.out.calls = <<"prepareEmailLinkVerification">>
                    /\ n.out.active = <<>> /\ n.resets = resets
             ELSE RoutedByVerification(EvR("NEXT", r), n, ~context.exampleMode)
  /\ CodeAttemptRuns => \A r \in Resources : AttemptStoresFirst(r, ~context.exampleMode)

\* C14: the code attempt of the email-code sub-flow returned a complete sign-up,
\* which was stored, and the NEXT it raised activated the session and scheduled RESET
C14_Witness ==
  /\ status = "active"
  /\ state = AttemptingNode("EmailCode")
  /\ Completed(context.resource)
  /\ out.active = <<"created">>
  /\ resets = 1

\* C15: at rest in Verification exactly one of the sub-flows PhoneCode, EmailLink
\* and EmailCode is active; the machine never rests in Verification.Init
C15_OneSubFlow ==
  InVerification =>
    /\ Len(state) >= 3
    /\ Cardinality({f \in {"PhoneCode", "EmailLink", "EmailCode"} : state[2] = f}) = 1

FirstInit == status = "active" /\ state = <<"Idle">> /\ ~context.inited

\* INIT with input i is routed to Verification, and the URL can be navigated
EntersVerification(i) == StatedRoute(i) = V /\ ~i.exampleMode

\* machine n issued an internal navigation to path p
NavigatedTo(n, p) == \E k \in 1..Len(n.out.navs) : n.out.navs[k] = [kind |-> "shallowPush", to |-> p]

\* C16: INIT with the status marker verified and a resource that requires
\* continuation enters Verification and navigates to /continue; entering
\* Verification with the status marker expired navigates to the root path; neither
\* navigation is issued when the created-session marker is present
C16_StatusMarkers ==
  FirstInit =>
    \A i \in InitInputs :
      LET n == AfterInit(M, i)
      IN  EntersVerification(i) =>
            /\ (i.url.status = "verified" /\ MissesRequiredFields(i) /\ ~i.url.createdSession)
                  => n.status = "active" /\ Top(n) = V /\ NavigatedTo(n, "/continue")
            /\ (i.url.status = "expired" /\ ~i.url.createdSession)
                  => n.status = "active" /\ Top(n) = V /\ NavigatedTo(n, "/")
            /\ i.url.createdSession => ~NavigatedTo(n, "/continue") /\ ~NavigatedTo(n, "/")

\* C17: INIT that enters Verification with the created-session marker in the URL
\* activates the session of the marker and schedules the delayed RESET, whatever the
\* status marker
C17_CreatedSessionMarker ==
  FirstInit =>
    \A i \in InitInputs :
      LET n == AfterInit(M, i)
      IN  (EntersVerification(i) /\ i.url.createdSession) =>
            /\ n.status = "active"
            /\ Len(n.out.active) = 1
            /\ n.resets = 1
            /\ ~NavigatedTo(n, "/continue") /\ ~NavigatedTo(n, "/")

InLinkAttempting ==
  /\ status = "active"
  /\ Len(state) = 4 /\ SubSeq(state, 1, 3) = <<V, "EmailLink", "Attempting">>

AfterLinkTimeout == Macrostep(M, Ev("xstate.after.emailLinkTimeout"))
AfterRestart == Macrostep(M, Ev("EMAIL_LINK.RESTART"))

\* C18: once the machine has stayed in EmailLink.Attempting for the delay
\* emailLinkTimeout, the listen operation is stopped, the error
\* verify-email-link-timeout is sent to the form store and the machine is in
\* EmailLink.Pending; the timeout is reported by no step taken outside Attempting
\* or before the delay has elapsed; the time counts from zero whenever Attempting
\* is entered again
C18_EmailLinkTimeout ==
  /\ [](/\ InLinkAttempting =>
            /\ invoked = "attemptEmailLinkVerification"
            /\ AfterLinkTimeout.state = PendingNode("EmailLink")
            /\ AfterLinkTimeout.invoked = "none"
            /\ AfterLinkTimeout.out.form = <<TimeoutError>>
            /\ AfterLinkTimeout.out.calls = <<>>
            /\ AfterRestart.state = AttemptingNode("EmailLink")
            /\ AfterRestart.timer = 0
        /\ ~InLinkAttempting => linkTimer = 0)
  /\ [][(out' # out /\ \E k \in 1..Len(out'.form) : out'.form[k] = TimeoutError) =>
          /\ InLinkAttempting
          /\ linkTimer = emailLinkTimeout
          /\ state' = PendingNode("EmailLink")]_vars
  /\ [][(~InLinkAttempting /\ InLinkAttempting') => linkTimer' = 0]_vars

\* C18: the delay elapsed in EmailLink.Attempting, and the timeout has moved the
\* machine to Pending with the listen operation stopped and the error reported
C18_Witness ==
  /\ status = "active"
  /\ state = PendingNode("EmailLink")
  /\ invoked = "none"
  /\ out.form = <<TimeoutError>>
  /\ linkTimer = 0

\* C19: in EmailLink.Attempting, EMAIL_LINK.FAILED stores the resource of the event,
\* sends the error to the form store and moves to EmailLink.Pending;
\* EMAIL_LINK.RESTART enters Attempting again (a new listen operation, the countdown
\* in NotResendable) and neither stores a resource nor raises NEXT; any other
\* EMAIL_LINK.* event stores the resource of the event and raises NEXT with it
C19_EmailLinkEvents ==
  InLinkAttempting =>
    /\ \A r \in Resources :
         LET f == Macrostep(M, EvR("EMAIL_LINK.FAILED", r))
             w == OnEmailLink([M EXCEPT !.out = NoOut], EvR("EMAIL_LINK.VERIFIED", r))
             n == Macrostep(M, EvR("EMAIL_LINK.VERIFIED", r))
         IN  /\ f.status = "active"
             /\ f.ctx.resource = r
             /\ f.out.form = <<"ERRORS.SET">>
             /\ f.state = PendingNode("EmailLink")
             /\ f.out.active = <<>> /\ f.resets = resets
             /\ w.ctx.resource = r
             /\ w.queue = <<EvR("NEXT", r)>>
             /\ w.state = state
             /\ n.status = "active" => n.ctx.resource = r
             /\ Completed(r) =>
                  /\ Len(n.out.active) = (IF context.exampleMode THEN 0 ELSE 1)
                  /\ n.resets = Sat(resets, MaxResets)
    /\ AfterRestart.status = "active"
    /\ AfterRestart.state = AttemptingNode("EmailLink")
    /\ AfterRestart.out.calls = <<"attemptEmailLinkVerification">>
    /\ AfterRestart.invoked = "attemptEmailLinkVerification"
    /\ AfterRestart.ctx.resource = context.resource
    /\ AfterRestart.out.active = <<>> /\ AfterRestart.resets = resets

\* C19: an EMAIL_LINK.VERIFIED event with a complete sign-up arrived in
\* EmailLink.Attempting: the resource is stored and the NEXT raised with it has
\* activated the session
C19_Witness ==
  /\ InLinkAttempting
  /\ Completed(context.resource)
  /\ out.active = <<"created">>
  /\ resets = 1

InStep == status = "active" /\ Top(M) \in {"Start", "Continue", V}

\* the macrostep of FORM.ATTACH with the form reference f
AfterAttach(f) ==
  Settle([M EXCEPT !.out = NoOut, !.ctx.formRef = f, !.queue = <<Ev("RESET.STEP")>>],
         Ev("FORM.ATTACH"), TRUE)

AttemptActors ==
  {"startAttempt", "startAttemptWeb3", "continueAttempt", "attemptEmailLinkVerification",
   "attemptEmailAddressCodeVerification", "attemptPhoneNumberVerification"}

\* C20: FORM.ATTACH in a step leaves the machine in the same step, with
\* context.formRef the attached reference, ERRORS.CLEAR sent to the form store,
\* loading.isLoading false and no attempt operation running
C20_FormAttachResetsStep ==
  InStep =>
    \A f \in 1..(MaxFormRef + 1) :
      LET n == AfterAttach(f)
      IN  /\ n.status = "active"
          /\ Top(n) = Top(M)
          /\ n.ctx.formRef = f
          /\ \E k \in 1..Len(n.out.form) : n.out.form[k] = "ERRORS.CLEAR"
          /\ ~n.ctx.loading.isLoading
          /\ n.invoked \notin AttemptActors

\* the machine is back in Idle after an INIT
Reinit == status = "active" /\ state = <<"Idle">> /\ context.inited

\* C21: the ticket captured by the first INIT is never changed: an INIT sent after
\* a RESET, whatever its URL, leaves context.ticket as it was
C21_TicketSetOnce ==
  Reinit =>
    \A i \in InitInputs :
      AfterInit(M, i).status = "active" => AfterInit(M, i).ctx.ticket = context.ticket

\* events a client can send before it has sent INIT
UserEvents ==
  {"RESET", "RESET.STEP", "SUBMIT", "RETRY", "NEXT", "NAVIGATE.START", "NAVIGATE.PREVIOUS"}

\* C22: before the first INIT the machine is in Idle, and no event other than INIT
\* takes it out of Idle: no operative state is entered, and nothing is run, on a
\* context that INIT has not populated
C22_ContextBeforeSteps ==
  (status = "active" /\ ~context.inited) =>
    /\ state = <<"Idle">>
    /\ \A t \in UserEvents :
         /\ Macrostep(M, Ev(t)).status = "active"
         /\ Macrostep(M, Ev(t)).state = <<"Idle">>

\* the calls that machine n started in its last macrostep
CallsOf(n) == {n.out.calls[k] : k \in 1..Len(n.out.calls)}

\* C23: the machine starts no identity-client operation again by itself: neither
\* the success of a call, whatever it returns, nor its failure starts the same
\* operation anew; a ticket attempt that returns a resource still in need of
\* continuation is followed by a state that waits for the user
C23_NoAutomaticRetry ==
  CallRuns =>
    /\ \A r \in Resources :
         /\ invoked \notin CallsOf(AfterDone(r))
         /\ (/\ state = <<"Start", "Attempting">>
             /\ NeedsContinuationOf(r) /\ ~NeedsVerificationOf(r)) =>
              AfterDone(r).invoked = "none"
    /\ AfterError.out.calls = <<>>

\* C24: in example mode the machine navigates nowhere, neither internally nor
\* externally, and activates no session: not in what the last event did, and not in
\* what the first INIT does in example mode, whatever its input
C24_ExampleModeInert ==
  /\ (status = "active" /\ context.exampleMode) => out.navs = <<>> /\ out.active = <<>>
  /\ FirstInit =>
       \A i \in {j \in InitInputs : j.exampleMode} :
         LET n == AfterInit(M, i) IN n.out.navs = <<>> /\ n.out.active = <<>>

\* C24: in example mode a sign-up was completed: the RESET is scheduled and no
\* session has been activated, nothing navigated
C24_Witness ==
  /\ status = "active"
  /\ context.exampleMode
  /\ Completed(context.resource)
  /\ resets = 1
  /\ out.active = <<>> /\ out.navs = <<>>

Steps == {"Start", "Continue", V, "Callback", "Restricted"}

\* C25: INIT of a logged-in user in single-session mode, not in example mode,
\* navigates externally to redirect_url if the URL has it, else to the computed
\* default, and enters no step; the machine then rests in Init, and no event other
\* than RESET makes it enter a step
C25_LoggedInStaysOut ==
  /\ FirstInit =>
       \A i \in InitInputs :
         (LoggedIn(i) /\ i.single /\ ~i.exampleMode) =>
           /\ AfterInit(M, i).status = "active"
           /\ AfterInit(M, i).state = <<"Init">>
           /\ AfterInit(M, i).out.navs =
                <<[kind |-> "push",
                   to |-> IF i.redirect THEN "redirect_url" ELSE "afterSignUpUrl"]>>
  /\ (status = "active" /\ state = <<"Init">>) =>
       \A t \in UserEvents \ {"RESET"} :
         /\ Macrostep(M, Ev(t)).status = "active"
         /\ Top(Macrostep(M, Ev(t))) \notin Steps

InCallback == status = "active" /\ state = <<"Callback">>

\* NEXT with resource r (or none), the client holding a last active session or not
CallbackNext(r, l) == [EvR("NEXT", r) EXCEPT !.lastActive = l]

\* C26: entering Callback sends CALLBACK to the third-party machine, and NEXT in
\* Callback is decided in this order: complete -> session activated (outside
\* example mode) and RESET scheduled; no pending sign-up and a last active session
\* -> that session activated and RESET scheduled; verification needed ->
\* Verification; continuation needed -> Continue; otherwise -> Start
C26_CallbackNext ==
  /\ FirstInit =>
       \A i \in InitInputs :
         StatedRoute(i) = "Callback" =>
           /\ AfterInit(M, i).state = <<"Callback">>
           /\ AfterInit(M, i).out.sent = <<"CALLBACK">>
  /\ InCallback =>
       \A r \in MaybeResource, l \in BOOLEAN :
         LET ev == CallbackNext(r, l)
             n == Macrostep(M, ev)
             activated == IF context.exampleMode THEN 0 ELSE 1
         IN  /\ n.status = "active"
             /\ IF isComplete(M, ev)
                  THEN /\ n.state = state /\ Len(n.out.active) = activated
                       /\ n.resets = Sat(resets, MaxResets)
                ELSE IF signUp.status = "null" /\ l
                  THEN /\ n.state = state
                       /\ n.out.active = (IF context.exampleMode THEN <<>> ELSE <<"lastActive">>)
                       /\ n.resets = Sat(resets, MaxResets)
                ELSE IF statusNeedsVerification(M, ev) THEN Top(n) = V
                ELSE IF statusNeedsContinue(M, ev) THEN n.state = ContinueNode
                ELSE Top(n) = "Start"

\* C27: the third-party machine is spawned once: there is never more than one such
\* child, whatever RESET and INIT events were processed, and exactly one in every
\* state of a machine that has processed an INIT
C27_ThirdPartySpawnedOnce ==
  /\ child <= 1
  /\ (status = "active" /\ context.inited) => child = 1

\* C27: a machine that was reset and initialised again (an example-mode session
\* without a ticket that holds the resource of an earlier session) has one child
C27_Witness ==
  /\ status = "active"
  /\ state = <<"Start", "Pending">>
  /\ context.exampleMode /\ context.ticket = "none"
  /\ context.resource # NoResource
  /\ child = 1

\* the commands that machine n sent to the form store in its last macrostep
FormCommandsOf(n) == {n.out.form[k] : k \in 1..Len(n.out.form)}

\* C28: whenever the machine enters Continue, it sends MARK_AS_PROGRESSIVE to the
\* form store, and whenever it leaves Continue it sends UNMARK_AS_PROGRESSIVE, so
\* that no unmark reaches the form store without a mark before it
C28_ProgressiveMarks ==
  /\ StartAttemptRuns =>
       \A r \in Resources :
         (AfterDone(r).status = "active" /\ Top(AfterDone(r)) = "Continue") =>
           "MARK_AS_PROGRESSIVE" \in FormCommandsOf(AfterDone(r))
  /\ (status = "active" /\ Top(M) = "Continue") =>
       "UNMARK_AS_PROGRESSIVE" \in FormCommandsOf(AfterReset)

\* the resource a guard is stated to consult: the event's, else the context's,
\* else the client's cached sign-up
ConsultedResource(ev) ==
  IF ev.resource # NoResource THEN ev.resource
  ELSE IF context.resource # NoResource THEN context.resource
  ELSE signUp

\* C29: in a step, isComplete and isFieldUnverified decide a NEXT event on the
\* event's resource when it carries one, else on context.resource, else on the
\* client's sign-up; so a NEXT whose resource is not complete never takes the
\* completion branch (no session is activated, no RESET is scheduled), whatever
\* context.resource holds
C29_ResourcePrecedence ==
  (status = "active" /\ InStep) =>
    \A r \in MaybeResource :
      LET ev == EvR("NEXT", r)
          n  == Macrostep(M, ev)
      IN  /\ isComplete(M, ev) <=> Completed(ConsultedResource(ev))
          /\ (r # NoResource /\ ~Completed(r)) =>
               (n.out.active = <<>> /\ n.resets = resets)
          /\ r # NoResource =>
               \A f \in {"email_address", "phone_number"} :
                 isFieldUnverified(M, ev, f) <=> f \in r.unverified

\* the sets of disableable fields the attached form may hold
FormFields == SUBSET DISABLEABLE_FIELDS

\* the FIELD.DISABLE commands among the commands sent in machine n's last macrostep
DisabledBy(n) == {f \in DISABLEABLE_FIELDS : ("FIELD.DISABLE " \o f) \in FormCommandsOf(n)}

\* C30: when a Start attempt ends, with success or with failure, the form store is
\* sent FIELD.DISABLE for exactly the disableable fields the form holds if a
\* ticket is present, and for none without a ticket; the Web3 attempt disables no
\* field
C30_TicketFieldsDisabled ==
  StartAttemptRuns =>
    \A currentFields \in FormFields :
      LET expected == IF invoked = "startAttempt" /\ hasTicket(M)
                        THEN currentFields ELSE {}
      IN  /\ \A r \in Resources : DisabledBy(AfterDone(r)) = expected
          /\ DisabledBy(AfterError) = expected

\* a create/update attempt of Start or Continue is in flight
StepAttemptRuns ==
  /\ status = "active"
  /\ invoked # "none"
  /\ state \in {<<"Start", "Attempting">>, <<"Start", "AttemptingWeb3">>,
                <<"Continue", "Attempting">>}

\* C31: when a create/update attempt of Start or Continue succeeds, whatever the
\* returned resource, the machine leaves Attempting (to another state, or with a
\* RESET scheduled that takes it to Idle) or has a new operation in flight; and a
\* successful Continue attempt whose resource still has missing fields, and
\* nothing to verify, ends in a state that accepts SUBMIT
C31_AttemptLeavesAttempting ==
  StepAttemptRuns =>
    \A r \in Resources :
      LET n == AfterDone(r)
      IN  n.status = "active" =>
            /\ n.state # state \/ n.resets > 0 \/ n.invoked # "none"
            /\ (/\ Top(M) = "Continue"
                /\ NeedsContinuationOf(r) /\ ~NeedsVerificationOf(r)
                /\ ~Completed(context.resource))
                 => AcceptsSubmit(n)

\* C32: the resource the strategy-selection guards of Verification read is never
\* undefined: a first INIT that is routed to Verification (path /verify, the
\* client's sign-up requiring verification) leaves the machine running in
\* Verification, in the sub-flow the strategy priority selects; and in every state
\* of Verification a NEXT without a resource finds a resource to read
C32_VerificationResource ==
  /\ FirstInit =>
       \A i \in InitInputs :
         LET n == AfterInit(M, i)
             f == StatedFlow(i.signUp, i.verifications)
         IN  (StatedRoute(i) = V /\ f # "any" /\ ~i.url.createdSession) =>
               /\ n.status = "active"
               /\ Len(n.state) >= 2 /\ n.state[1] = V /\ n.state[2] = f
  /\ (status = "active" /\ Top(M) = V) => ~isFieldUnverifiedThrows(M, Ev("NEXT"))

\* the states in which a create/update attempt is invoked
StartAttempts == {<<"Start", "Attempting">>, <<"Start", "AttemptingWeb3">>}

\* C33: while sign-ups are restricted and no ticket is present, no event, and no
\* event followed by SUBMIT, takes the machine to Start.Attempting or
\* Start.AttemptingWeb3
C33_RestrictedNeverAttempts ==
  (status = "active" /\ context.inited /\ isRestrictedWithoutTicket(M)) =>
    /\ state \notin StartAttempts
    /\ \A t \in {"NEXT", "NAVIGATE.START", "NAVIGATE.PREVIOUS", "SUBMIT"} :
         LET n == Macrostep(M, Ev(t))
         IN  /\ n.state \notin StartAttempts
             /\ n.status = "active" => Macrostep(n, Ev("SUBMIT")).state \notin StartAttempts

\* C34: in the Pending state of a code sub-flow, NotResendable is active only while
\* context.resendable is false, Resendable only while context.resendable is true
\* and the countdown is at 0; and whenever context.resendable is true, RETRY
\* re-enters Preparing of the sub-flow
C34_CountdownAgrees ==
  InCodePending =>
    /\ state[4] = "NotResendable" => ~context.resendable
    /\ state[4] = "Resendable" => context.resendable /\ context.resendableAfter = 0
    /\ context.resendable =>
         AfterRetry.status = "active" /\ AfterRetry.state = PreparingNode(state[2])

\* C35: in example mode no call to the identity client is in flight and none has
\* just been invoked, in any state
C35_ExampleModeNoCalls ==
  (status = "active" /\ context.inited /\ context.exampleMode) =>
    invoked = "none" /\ out.calls = <<>>

\* the macrostep of event ev, taken with no RESET counted as scheduled, so that
\* its resets field tells whether the macrostep itself schedules one
Alone(ev) == Macrostep([M EXCEPT !.resets = 0], ev)

\* C36: no macrostep activates a session more than once; and while the RESET of a
\* completed sign-up is scheduled, a NEXT delivered in the step, with any resource
\* or none, neither activates a session again nor schedules another RESET
C36_ActivatesOnce ==
  /\ Len(out.active) <= 1
  /\ (InStep /\ resets > 0) =>
       \A r \in MaybeResource :
         LET n == Alone(EvR("NEXT", r))
         IN  n.out.active = <<>> /\ n.resets = 0

====
